---- MODULE Spec2Model ----
(***************************************************************************)
(* Device-state tracking and reading ingestion of the water-quality        *)
(* backend: POST /api/esp32/data (routes/esp32.js), the ESP32Device model  *)
(* (models/ESP32Device.js), the sensor-data validation middleware and the  *)
(* device status check of services/cronService.js; the socket hub of       *)
(* services/socketService.js; the scoring of models/WaterQuality.js and    *)
(* the threshold evaluation of routes/esp32.js; the review and acknowledge *)
(* handlers of routes/waterQuality.js and routes/admin.js and the data     *)
(* cleanup of services/cronService.js.                                     *)
(*                                                                         *)
(* Four specifications share the variables: Spec (ingestion, registration, *)
(* status check, with every await a step of its own), SpecHub (the sockets *)
(* and what is delivered to them), SpecReading (one document through       *)
(* scoring and threshold evaluation) and SpecRecords (the WaterQuality     *)
(* collection under ingestion, reviews, acknowledgment and cleanup).       *)
(*                                                                         *)
(* The document store is MongoDB behind Mongoose: findOne/find return a    *)
(* private in-memory copy of a document; save() of a new document inserts  *)
(* it (deviceId carries a unique index), save() of a loaded document       *)
(* writes ($set) exactly the paths modified on the in-memory copy.  Every  *)
(* `await` of a handler is a point where other handlers may run.           *)
(***************************************************************************)
EXTENDS Integers, FiniteSets, Sequences, TLC

\* the device collection, the readings persisted, the requests to
\* POST /api/esp32/data, the status check, the registration, the clock
VARIABLES store, readings, req, sweep, reg, now
\* the socket hub: socketService's io, the sockets with their rooms, each
\* socket's latest request per topic, the deliveries of the last publish
VARIABLES io, sockets, latest, delivered
\* one reading on its way through scoring and threshold evaluation, with the
\* device it is evaluated against
VARIABLES eval
\* the WaterQuality collection, the acknowledge requests of the users, the
\* calendar day, the response of the handler that answered last
VARIABLES wq, acks, today, last

ingestVars == <<store, readings, req, sweep, reg, now>>
hubVars == <<io, sockets, latest, delivered>>
recordVars == <<wq, acks, today, last>>
vars == <<ingestVars, hubVars, eval, recordVars>>

(***************************************************************************)
(* Bounds of the model.                                                    *)
(***************************************************************************)
\* the clock advances MaxTicks times at most
MaxTicks == 2

DeviceIds == {"d1", "d2"}
\* the devices that report readings; the others are registered and silent
ReportingIds == {"d1"}
\* the order in which find({}) returns the devices
DeviceOrder == <<"d1", "d2">>
\* the requests, named in their order of arrival
Reqs == {"r1", "r2"}
ReqOrder == <<"r1", "r2">>
SensorKeys == {"turbidity"}

(***************************************************************************)
(* ESP32Device documents.                                                  *)
(***************************************************************************)
Statuses == {"online", "offline", "maintenance", "error"}

\* const timeout = 10 * 60 * 1000, in minutes
TimeoutMinutes == 10

\* minutes per clock step: a device is seen exactly the timeout ago after one
\* step and longer ago after two
TickMinutes == TimeoutMinutes

\* the slot of a deviceId that has no document in the collection; docs is the
\* number of documents of the collection that carry the deviceId, and the
\* other fields are those of the one findOne returns (the counters and
\* averageQualityScore are the schema's statistics, all with default 0)
NoDevice ==
  [exists |-> FALSE, docs |-> 0, status |-> "offline", lastSeen |-> 0,
   thresholds |-> "default",
   totalReadings |-> 0, successfulReadings |-> 0, failedReadings |-> 0,
   averageQualityScore |-> 0]

\* new ESP32Device({...}) at time t: schema defaults, then the given status
\* (status defaults to 'offline', lastSeen to Date.now, the counters to 0)
NewDevice(status, thresholds, t) ==
  [exists |-> TRUE, docs |-> 0, status |-> status, lastSeen |-> t,
   thresholds |-> thresholds,
   totalReadings |-> 0, successfulReadings |-> 0, failedReadings |-> 0,
   averageQualityScore |-> 0]

SchemaDefaultStatus == "offline"

\* pre('save'): lastSeen := new Date() when status was modified and is online
preSave(doc, statusModified, t) ==
  IF statusModified /\ doc.status = "online" THEN [doc EXCEPT !.lastSeen = t] ELSE doc

\* recordReading(successful) on an in-memory document, before its save()
recordReading(doc, successful) ==
  [doc EXCEPT !.totalReadings = @ + 1,
              !.successfulReadings = IF successful THEN @ + 1 ELSE @,
              !.failedReadings = IF successful THEN @ ELSE @ + 1]

(***************************************************************************)
(* Request bodies of POST /api/esp32/data and their validation.            *)
(***************************************************************************)
SensorEntries == {"absent", "novalue", "value"}

NoSensors == [k \in SensorKeys |-> "absent"]

Bodies ==
  { [deviceId |-> d, hasLocation |-> l, hasSensors |-> s, sensors |-> e] :
      d \in ReportingIds, l \in BOOLEAN, s \in BOOLEAN, e \in [SensorKeys -> SensorEntries] }
  \ { b \in [deviceId : ReportingIds, hasLocation : BOOLEAN, hasSensors : BOOLEAN,
             sensors : [SensorKeys -> SensorEntries]] :
        ~b.hasSensors /\ b.sensors # NoSensors }

EmptyBody == [deviceId |-> "d1", hasLocation |-> FALSE, hasSensors |-> FALSE,
              sensors |-> NoSensors]

\* the schema without location marked required
validateSensorData_LocationOptional(body) ==
  /\ body.hasSensors
  /\ \E k \in SensorKeys : body.sensors[k] # "absent"
  /\ \A k \in SensorKeys : body.sensors[k] # "novalue"

\* the Joi schema: location required; sensors required, at least one key, and
\* every entry present carries a numeric value
validateSensorData(body) ==
  /\ body.hasLocation
  /\ body.hasSensors
  /\ \E k \in SensorKeys : body.sensors[k] # "absent"
  /\ \A k \in SensorKeys : body.sensors[k] # "novalue"

\* the handler's own pass over the sensors: some entry has a value
hasValidData(body) ==
  body.hasSensors /\ \E k \in SensorKeys : body.sensors[k] = "value"

(***************************************************************************)
(* State of one request to POST /api/esp32/data.                           *)
(*   pc      idle (not yet received), found (device resolved, awaiting the *)
(*           reading's save), saved (reading persisted, awaiting the       *)
(*           device's save), done (response sent)                          *)
(*   res     the HTTP status of the response, 0 while none is sent         *)
(*   isNew   the in-memory device was constructed by this request          *)
(*   device  the in-memory device (let device), once status, lastSeen and  *)
(*           health are assigned                                           *)
(*   loaded  the status of the document findOne returned                   *)
(*   emitted the events the request emitted on io, in order                *)
(*   alerts  checkForAlerts returned a non-empty list (alerts.length > 0)   *)
(***************************************************************************)
IdleReq ==
  [pc |-> "idle", res |-> 0, body |-> EmptyBody, isNew |-> FALSE, device |-> NoDevice,
   loaded |-> "offline", emitted |-> <<>>, alerts |-> FALSE]

\* the status check: due is the set of devices of `devices` that pass the
\* loop's test, i the loop's position in DeviceOrder
IdleSweep == [pc |-> "idle", due |-> {}, now |-> 0, i |-> 1]

IdleReg == [pc |-> "idle", deviceId |-> "d1"]

(***************************************************************************)
(* The socket hub of services/socketService.js.  A topic is a location     *)
(* (GeoJSON coordinates [longitude, latitude]) or a device; a room is the   *)
(* string key the service derives from it.                                 *)
(***************************************************************************)
Sockets == {"s1", "s2"}

\* two coordinate pairs whose digits run together to the same string
Coordinates == {<<1, 23>>, <<12, 3>>}

LocationTopic(c) == [kind |-> "location", coordinates |-> c, deviceId |-> ""]

DeviceTopic(d) == [kind |-> "device", coordinates |-> <<>>, deviceId |-> d]

Topics ==
  { LocationTopic(c) : c \in Coordinates } \cup { DeviceTopic(d) : d \in ReportingIds }

\* a socket before its connection, with no room
NoSocket == [state |-> "new", rooms |-> {}]

\* an emit that addresses no room: every connected socket
Broadcast == "*"

InitIngest ==
  /\ store = [d \in DeviceIds |-> NoDevice]
  /\ readings = {}
  /\ req = [r \in Reqs |-> IdleReq]
  /\ sweep = IdleSweep
  /\ reg = IdleReg
  /\ now = 0

\* let io; no connection yet
InitHub ==
  /\ io = FALSE
  /\ sockets = [s \in Sockets |-> NoSocket]
  /\ latest = [s \in Sockets |-> [t \in Topics |-> "none"]]
  /\ delivered = <<>>

(***************************************************************************)
(* WaterQuality documents (models/WaterQuality.js) of source 'esp32' and   *)
(* the thresholds of the device they are evaluated against.                *)
(***************************************************************************)
\* the keys of sensorData, in the order of the schema
SensorOrder == <<"turbidity", "temperature", "tds", "conductivity", "dissolvedOxygen">>

SensorParams == { SensorOrder[i] : i \in 1..Len(SensorOrder) }

\* the values a reading may carry, around every breakpoint of the scoring
\* and every default threshold
SensorValues ==
  [turbidity       |-> {4, 5, 9, 10, 19, 20, 25},
   temperature     |-> {4, 5, 10, 25, 30, 31, 36},
   tds             |-> {49, 50, 100, 150, 500, 750, 751, 1001},
   conductivity    |-> {300},
   dissolvedOxygen |-> {2, 3, 4, 5, 6, 7}]

\* sensorData[param] with no value
NoValue == [present |-> FALSE, value |-> 0]

Entries(param) ==
  {NoValue} \cup { [present |-> TRUE, value |-> v] : v \in SensorValues[param] }

\* sensorData of the readings evaluated
SensorData ==
  [turbidity : Entries("turbidity"), temperature : Entries("temperature"),
   tds : Entries("tds"), conductivity : Entries("conductivity"),
   dissolvedOxygen : Entries("dissolvedOxygen")]

\* the thresholds of the ESP32Device schema
DefaultThresholds ==
  [turbidity   |-> [max |-> 5, criticalMax |-> 20],
   temperature |-> [min |-> 10, max |-> 25, criticalMin |-> 5, criticalMax |-> 35],
   tds         |-> [min |-> 150, max |-> 500, criticalMin |-> 50, criticalMax |-> 1000]]

\* the thresholds a device may carry: the schema's, a critical bound for
\* turbidity alone, warning bounds alone, bounds that cross one another
ThresholdConfigs ==
  { DefaultThresholds,
    [turbidity   |-> [criticalMax |-> 20]],
    [temperature |-> [min |-> 10, max |-> 25],
     tds         |-> [min |-> 150, max |-> 500]],
    [turbidity   |-> [min |-> 10, max |-> 5, criticalMin |-> 5, criticalMax |-> 9],
     temperature |-> [min |-> 5, max |-> 35, criticalMin |-> 10, criticalMax |-> 25]] }

\* reviewData of the schema: overallRating is a Number; taste, clarity and
\* odor are sub-documents with a rating
Ratings == 1..5

NoRating == [present |-> FALSE, rating |-> 0]

\* a document that carries no review
NoReview ==
  [overallRating |-> [present |-> FALSE, value |-> 0],
   taste |-> NoRating, clarity |-> NoRating, odor |-> NoRating]

\* reviewData as validateWaterQualityReview lets it through: overallRating
\* required, every aspect optional and with a rating when it is there
ReviewData ==
  [overallRating : { [present |-> TRUE, value |-> r] : r \in Ratings },
   taste   : {NoRating} \cup { [present |-> TRUE, rating |-> r] : r \in Ratings },
   clarity : {NoRating} \cup { [present |-> TRUE, rating |-> r] : r \in Ratings },
   odor    : {NoRating} \cup { [present |-> TRUE, rating |-> r] : r \in Ratings }]

\* no document under evaluation
IdleEval ==
  [pc |-> "none", source |-> "esp32",
   sensorData |-> [p \in SensorParams |-> NoValue], reviewData |-> NoReview,
   thresholds |-> DefaultThresholds, qualityScore |-> 0, status |-> "unset",
   alerts |-> <<>>]

InitEval == eval = IdleEval

(***************************************************************************)
(* The WaterQuality collection, the acknowledge requests and the calendar. *)
(***************************************************************************)
\* the _id values of the documents, in the order in which they are given out
RecordOrder == <<"w1", "w2">>

RecordIds == { RecordOrder[i] : i \in 1..Len(RecordOrder) }

\* the authenticated users (req.user.id)
Users == {"u1", "u2"}

NoUser == "none"

\* thirtyDaysAgo.setDate(thirtyDaysAgo.getDate() - 30)
RetentionDays == 30

\* the calendar days the model visits: a day, the next, and the two 30 days
\* after them
Days == {0, 1, RetentionDays, RetentionDays + 1}

\* the slot of an _id that no document carries; the fields of a document are
\* those of the schema that a handler reads or writes, alerts.* flattened
NoRecord ==
  [exists |-> FALSE, source |-> "esp32", deviceId |-> "", timestamp |-> 0,
   sensorData |-> [p \in SensorParams |-> NoValue], reviewData |-> NoReview,
   qualityScore |-> 0, status |-> "unset",
   isAlert |-> FALSE, acknowledged |-> FALSE, acknowledgedBy |-> NoUser,
   acknowledgedAt |-> 0]

\* an acknowledge request of a user: idle, or loaded (findById has returned
\* the document id and the save is awaited)
IdleAck == [pc |-> "idle", id |-> "w1"]

\* the response of a handler: its operation, the HTTP status, the _id of the
\* document it is about, the qualityScore and alerts of its body, the events
\* emitted, and the qualityScore the request had put into its own body
NoResponse ==
  [op |-> "none", res |-> 0, id |-> "", qualityScore |-> 0, alerts |-> <<>>,
   emitted |-> <<>>, supplied |-> 0]

\* an empty collection, no request
InitRecords ==
  /\ wq = [w \in RecordIds |-> NoRecord]
  /\ acks = [u \in Users |-> IdleAck]
  /\ today = 0
  /\ last = NoResponse

Init == InitIngest /\ InitHub /\ InitEval /\ InitRecords


(***************************************************************************)
(* Mongoose save() of a new document: an insert, which the unique index on *)
(* deviceId accepts only while no document carries that deviceId.          *)
(***************************************************************************)
\* the collection without the unique index
UniqueIndexAllows_NoIndex(cur) == TRUE

\* deviceId: { unique: true }
UniqueIndexAllows(cur) == cur.docs = 0

Insert(cur, doc) == [doc EXCEPT !.docs = cur.docs + 1]

(***************************************************************************)
(* Mongoose save() of a loaded document: $set of the modified paths.       *)
(***************************************************************************)
SetPaths(cur, doc, paths) ==
  [f \in DOMAIN cur |-> IF f \in paths THEN doc[f] ELSE cur[f]]

(***************************************************************************)
(* POST /api/esp32/data                                                    *)
(***************************************************************************)
\* the handler leaving the status as loaded
IngestStatus_Kept(loadedStatus) == loadedStatus

\* device.status = 'online' (the handler assigns it whatever the loaded status)
IngestStatus(loadedStatus) == "online"

\* the handler constructing the device without a status and not assigning one
InMemoryDevice_SchemaStatus(loaded, t) ==
  LET base == IF loaded.exists THEN loaded
              ELSE NewDevice(SchemaDefaultStatus, "default", t)
  IN  [base EXCEPT !.lastSeen = t]

\* the in-memory device after "find or create" and "update device status",
\* from the document findOne returned at time t
InMemoryDevice(loaded, t) ==
  LET base == IF loaded.exists THEN loaded ELSE NewDevice("online", "default", t)
  IN  [base EXCEPT !.status = IngestStatus(base.status), !.lastSeen = t]

\* isModified('status') on that copy: a new document, or a status that
\* differs from the one loaded
StatusModified(q) ==
  q.isNew \/ q.device.status # q.loaded

\* the paths recordReading's save() writes for a loaded document
IngestPaths(q) ==
  {"lastSeen", "totalReadings", "successfulReadings"}
    \cup (IF StatusModified(q) THEN {"status"} ELSE {})

\* validateSensorData, then the handler up to its first write: findOne, the
\* in-memory device, the pass over the sensors
Receive(r, body) ==
  /\ req[r].pc = "idle"
  /\ \A j \in 1..Len(ReqOrder) :
       ReqOrder[j] = r => \A k \in 1..(j - 1) : req[ReqOrder[k]].pc # "idle"
  /\ LET d == body.deviceId
     IN  req' = [req EXCEPT ![r] =
           IF ~validateSensorData(body) \/ ~hasValidData(body)
           THEN [IdleReq EXCEPT !.pc = "done", !.res = 400, !.body = body]
           ELSE [IdleReq EXCEPT !.pc = "found", !.body = body,
                                !.isNew = ~store[d].exists,
                                !.device = InMemoryDevice(store[d], now),
                                !.loaded = store[d].status]]
  /\ UNCHANGED <<store, readings, sweep, reg, now, hubVars, eval, recordVars>>

\* await waterQualityData.save() resolves
SaveReading(r) ==
  /\ req[r].pc = "found"
  /\ readings' = readings \cup {r}
  /\ req' = [req EXCEPT ![r].pc = "saved"]
  /\ UNCHANGED <<store, sweep, reg, now, hubVars, eval, recordVars>>

\* the catch block calling device.recordReading(false) before it answers
SaveReadingFail_Recorded(r) ==
  /\ req[r].pc = "found"
  /\ LET q == req[r]
         d == q.body.deviceId
         m == recordReading(q.device, FALSE)
     IN  store' = [store EXCEPT ![d] =
           IF store[d].exists
           THEN SetPaths(store[d], m, {"totalReadings", "failedReadings"})
           ELSE Insert(store[d], m)]
  /\ req' = [req EXCEPT ![r] =
       [IdleReq EXCEPT !.pc = "done", !.res = 500, !.body = req[r].body,
                       !.isNew = req[r].isNew]]
  /\ UNCHANGED <<readings, sweep, reg, now, hubVars, eval, recordVars>>

\* await waterQualityData.save() rejects: the catch block answers 500
SaveReadingFail(r) ==
  /\ req[r].pc = "found"
  /\ req' = [req EXCEPT ![r] =
       [IdleReq EXCEPT !.pc = "done", !.res = 500, !.body = req[r].body,
                       !.isNew = req[r].isNew]]
  /\ UNCHANGED <<store, readings, sweep, reg, now, hubVars, eval, recordVars>>

\* device.recordReading(true): the counters on the in-memory device, then its
\* save()
SaveDevice(r) ==
  LET q  == req[r]
      d  == q.body.deviceId
      m  == preSave(recordReading(q.device, TRUE), StatusModified(q), now)
  IN  IF q.isNew
      THEN /\ UniqueIndexAllows(store[d])
           /\ store' = [store EXCEPT ![d] = Insert(store[d], m)]
      ELSE store' = [store EXCEPT ![d] = SetPaths(store[d], m, IngestPaths(q))]

\* the handler emitting the alert event whatever the alert list
Published_AlertAlways(alerts) == <<"esp32-data", "water-quality-alert">>

\* io.emit('esp32-data', ...); alerts = checkForAlerts(...);
\* if (alerts.length > 0) io.emit('water-quality-alert', ...)
Published(alerts) ==
  IF alerts THEN <<"esp32-data", "water-quality-alert">> ELSE <<"esp32-data">>

\* await device.recordReading(true) resolves, then the emits and the response.
\* The alert list depends on the values and thresholds, which a request of
\* this specification does not carry: either outcome is taken.
RecordReading(r) ==
  /\ req[r].pc = "saved"
  /\ SaveDevice(r)
  /\ \E alerts \in BOOLEAN :
       req' = [req EXCEPT ![r] =
         [IdleReq EXCEPT !.pc = "done", !.res = 200, !.body = req[r].body,
                         !.isNew = req[r].isNew, !.alerts = alerts,
                         !.emitted = Published(alerts)]]
  /\ UNCHANGED <<readings, sweep, reg, now, hubVars, eval, recordVars>>

\* await device.recordReading(true) resolves, then io.emit('esp32-data', ...)
\* throws: io is what require('../server') held when this router was loaded,
\* and server.js loads the router before it assigns module.exports, so the
\* emit may be a call on undefined.  Nothing is published, the alerts are not
\* computed, and the exception lands in the handler's one catch block: 500.
RecordReadingEmitFail(r) ==
  /\ req[r].pc = "saved"
  /\ SaveDevice(r)
  /\ req' = [req EXCEPT ![r] =
       [IdleReq EXCEPT !.pc = "done", !.res = 500, !.body = req[r].body,
                       !.isNew = req[r].isNew]]
  /\ UNCHANGED <<readings, sweep, reg, now, hubVars, eval, recordVars>>

\* await device.recordReading(true) rejects (a store error, or the unique
\* index on deviceId refusing the insert): the catch block answers 500
RecordReadingFail(r) ==
  /\ req[r].pc = "saved"
  /\ req' = [req EXCEPT ![r] =
       [IdleReq EXCEPT !.pc = "done", !.res = 500, !.body = req[r].body,
                       !.isNew = req[r].isNew]]
  /\ UNCHANGED <<store, readings, sweep, reg, now, hubVars, eval, recordVars>>

(***************************************************************************)
(* POST /api/esp32/devices: findOne, then save() of a new document         *)
(***************************************************************************)
RegisterCheck(d) ==
  /\ reg.pc = "idle"
  /\ ~store[d].exists
  /\ reg' = [pc |-> "creating", deviceId |-> d]
  /\ UNCHANGED <<store, readings, req, sweep, now, hubVars, eval, recordVars>>

RegisterSave ==
  /\ reg.pc = "creating"
  /\ UniqueIndexAllows(store[reg.deviceId])
  /\ store' = [store EXCEPT ![reg.deviceId] =
       Insert(store[reg.deviceId],
              preSave(NewDevice(SchemaDefaultStatus, "default", now), FALSE, now))]
  /\ reg' = IdleReg
  /\ UNCHANGED <<readings, req, sweep, now, hubVars, eval, recordVars>>

RegisterFail ==
  /\ reg.pc = "creating"
  /\ reg' = IdleReg
  /\ UNCHANGED <<store, readings, req, sweep, now, hubVars, eval, recordVars>>

(***************************************************************************)
(* PUT /api/esp32/devices/:deviceId with {status}: the explicit external   *)
(* status change (findOne, Object.assign, save)                            *)
(***************************************************************************)
UpdateStatus(d, s) ==
  /\ store[d].exists
  /\ s # store[d].status
  /\ store' = [store EXCEPT ![d] =
       SetPaths(store[d], preSave([store[d] EXCEPT !.status = s], TRUE, now),
                {"status"} \cup (IF s = "online" THEN {"lastSeen"} ELSE {}))]
  /\ UNCHANGED <<readings, req, sweep, reg, now, hubVars, eval, recordVars>>

(***************************************************************************)
(* The device status check of cronService.js                               *)
(***************************************************************************)
\* the test with >= for >
SweepDue_AtTimeout(doc, t) ==
  doc.exists /\ doc.status = "online" /\ t - doc.lastSeen >= TimeoutMinutes

\* device.status === 'online' && timeSinceLastSeen > timeout
SweepDue(doc, t) ==
  doc.exists /\ doc.status = "online" /\ t - doc.lastSeen > TimeoutMinutes

\* the first position at or after i of a device the loop saves, or
\* Len(DeviceOrder) + 1 when the loop runs to its end without another save
NextDue(due, i) ==
  LET js == { j \in i..Len(DeviceOrder) : DeviceOrder[j] \in due }
  IN  IF js = {} THEN Len(DeviceOrder) + 1
      ELSE CHOOSE j \in js : \A k \in js : j <= k

\* devices = await ESP32Device.find({}); now = new Date()
SweepStart ==
  /\ sweep.pc = "idle"
  /\ sweep' = [pc |-> "running", due |-> { d \in DeviceIds : SweepDue(store[d], now) },
                now |-> now, i |-> 1]
  /\ UNCHANGED <<store, readings, req, reg, now, hubVars, eval, recordVars>>

\* the loop passing the due device without saving it
SweepSave_Unsaved ==
  /\ sweep.pc = "running"
  /\ LET j == NextDue(sweep.due, sweep.i)
     IN  /\ j <= Len(DeviceOrder)
         /\ sweep' = [sweep EXCEPT !.i = j + 1]
  /\ UNCHANGED <<store, readings, req, reg, now, hubVars, eval, recordVars>>

\* the loop reaches the next due device: status = 'offline', await save()
SweepSave ==
  /\ sweep.pc = "running"
  /\ LET j == NextDue(sweep.due, sweep.i)
     IN  /\ j <= Len(DeviceOrder)
         /\ LET d == DeviceOrder[j]
                m == preSave([store[d] EXCEPT !.status = "offline"], TRUE, now)
            IN  store' = [store EXCEPT ![d] = SetPaths(store[d], m, {"status"})]
         /\ sweep' = [sweep EXCEPT !.i = j + 1]
  /\ UNCHANGED <<readings, req, reg, now, hubVars, eval, recordVars>>

\* that save() rejects: the catch around the whole loop ends the run
SweepSaveFail ==
  /\ sweep.pc = "running"
  /\ NextDue(sweep.due, sweep.i) <= Len(DeviceOrder)
  /\ sweep' = IdleSweep
  /\ UNCHANGED <<store, readings, req, reg, now, hubVars, eval, recordVars>>

\* the loop runs to its end
SweepFinish ==
  /\ sweep.pc = "running"
  /\ NextDue(sweep.due, sweep.i) > Len(DeviceOrder)
  /\ sweep' = IdleSweep
  /\ UNCHANGED <<store, readings, req, reg, now, hubVars, eval, recordVars>>

\* time passes.  A clock step is as long as the timeout, and every await of a
\* handler is a store round trip, so the clock steps between handlers, not
\* within one.
Quiescent ==
  /\ \A r \in Reqs : req[r].pc \in {"idle", "done"}
  /\ sweep.pc = "idle"
  /\ reg.pc = "idle"

Tick ==
  /\ now < MaxTicks * TickMinutes
  /\ Quiescent
  /\ now' = now + TickMinutes
  /\ UNCHANGED <<store, readings, req, sweep, reg, hubVars, eval, recordVars>>


Next ==
  \/ Tick
  \/ \E r \in Reqs, b \in Bodies : Receive(r, b)
  \/ \E r \in Reqs : SaveReading(r)
  \/ \E r \in Reqs : SaveReadingFail(r)
  \/ \E r \in Reqs : RecordReading(r)
  \/ \E r \in Reqs : RecordReadingEmitFail(r)
  \/ \E r \in Reqs : RecordReadingFail(r)
  \/ \E d \in DeviceIds : RegisterCheck(d)
  \/ RegisterSave
  \/ RegisterFail
  \/ \E d \in DeviceIds, s \in Statuses : UpdateStatus(d, s)
  \/ SweepStart
  \/ SweepSave
  \/ SweepSaveFail
  \/ SweepFinish

Spec == Init /\ [][Next]_vars

\* the status check run on its own: while a run is in progress no other
\* handler takes a step
NextSweepAlone ==
  \/ sweep.pc = "idle" /\ Next
  \/ SweepSave
  \/ SweepSaveFail
  \/ SweepFinish

SpecSweepAlone == Init /\ [][NextSweepAlone]_vars

(***************************************************************************)
(* services/socketService.js                                               *)
(***************************************************************************)
\* Array.prototype.join: the elements' strings with sep between them
RECURSIVE join(_, _)
join(arr, sep) ==
  IF arr = <<>> THEN ""
  ELSE IF Len(arr) = 1 THEN ToString(arr[1])
  ELSE ToString(arr[1]) \o sep \o join(Tail(arr), sep)

\* the key with the coordinates run together
locationRoom_Unseparated(location) == "location_" \o join(location.coordinates, "")

\* `location_${location.coordinates.join('_')}`
locationRoom(location) == "location_" \o join(location.coordinates, "_")

\* `device_${deviceId}`
deviceRoom(deviceId) == "device_" \o deviceId

\* socket.leave as a no-op
leave_Kept(rooms, room) == rooms

\* socket.join(room), socket.leave(room): the rooms of a socket are a set
join_room(rooms, room) == rooms \cup {room}

leave(rooms, room) == rooms \ {room}

\* io.to(room).emit: the connected sockets that are in the room;
\* io.emit: the connected sockets
Recipients(room) ==
  { s \in Sockets :
      /\ sockets[s].state = "connected"
      /\ room = Broadcast \/ room \in sockets[s].rooms }

Delivery(event, topic, room) ==
  [event |-> event, topic |-> topic, room |-> room, to |-> Recipients(room)]

\* initializeSocket(socketIO): io = socketIO
initializeSocket ==
  /\ ~io
  /\ io' = TRUE
  /\ UNCHANGED <<sockets, latest, delivered, ingestVars, eval, recordVars>>

\* io.on('connection', ...): the socket gets its handlers
Connect(s) ==
  /\ io
  /\ sockets[s].state = "new"
  /\ sockets' = [sockets EXCEPT ![s].state = "connected"]
  /\ UNCHANGED <<io, latest, delivered, ingestVars, eval, recordVars>>

\* socket.on('join_location', ...)
join_location(s, location) ==
  /\ sockets[s].state = "connected"
  /\ sockets' = [sockets EXCEPT ![s].rooms = join_room(@, locationRoom(location))]
  /\ latest' = [latest EXCEPT ![s][LocationTopic(location.coordinates)] = "join"]
  /\ UNCHANGED <<io, delivered, ingestVars, eval, recordVars>>

\* socket.on('leave_location', ...)
leave_location(s, location) ==
  /\ sockets[s].state = "connected"
  /\ sockets' = [sockets EXCEPT ![s].rooms = leave(@, locationRoom(location))]
  /\ latest' = [latest EXCEPT ![s][LocationTopic(location.coordinates)] = "leave"]
  /\ UNCHANGED <<io, delivered, ingestVars, eval, recordVars>>

\* socket.on('subscribe_device', ...)
subscribe_device(s, deviceId) ==
  /\ sockets[s].state = "connected"
  /\ sockets' = [sockets EXCEPT ![s].rooms = join_room(@, deviceRoom(deviceId))]
  /\ latest' = [latest EXCEPT ![s][DeviceTopic(deviceId)] = "join"]
  /\ UNCHANGED <<io, delivered, ingestVars, eval, recordVars>>

\* socket.on('unsubscribe_device', ...)
unsubscribe_device(s, deviceId) ==
  /\ sockets[s].state = "connected"
  /\ sockets' = [sockets EXCEPT ![s].rooms = leave(@, deviceRoom(deviceId))]
  /\ latest' = [latest EXCEPT ![s][DeviceTopic(deviceId)] = "leave"]
  /\ UNCHANGED <<io, delivered, ingestVars, eval, recordVars>>

\* socket.on('disconnect', ...): the handler only logs; the socket has left
\* all its rooms when it runs
disconnect(s) ==
  /\ sockets[s].state = "connected"
  /\ sockets' = [sockets EXCEPT ![s] = [state |-> "disconnected", rooms |-> {}]]
  /\ UNCHANGED <<io, latest, delivered, ingestVars, eval, recordVars>>

\* emitWaterQualityUpdate(location, data)
emitWaterQualityUpdate(location) ==
  /\ delivered' =
       IF ~io THEN <<>>
       ELSE <<Delivery("water_quality_update", LocationTopic(location.coordinates),
                       locationRoom(location))>>
  /\ UNCHANGED <<io, sockets, latest, ingestVars, eval, recordVars>>

\* emitDeviceStatusUpdate(deviceId, data)
emitDeviceStatusUpdate(deviceId) ==
  /\ delivered' =
       IF ~io THEN <<>>
       ELSE <<Delivery("device_status_update", DeviceTopic(deviceId),
                       deviceRoom(deviceId))>>
  /\ UNCHANGED <<io, sockets, latest, ingestVars, eval, recordVars>>

\* emitAlertNotification(location, alert)
emitAlertNotification(location) ==
  /\ delivered' =
       IF ~io THEN <<>>
       ELSE <<Delivery("alert_notification", LocationTopic(location.coordinates),
                       locationRoom(location))>>
  /\ UNCHANGED <<io, sockets, latest, ingestVars, eval, recordVars>>

\* the emits of POST /api/esp32/data for a reading of device deviceId at
\* location: io.emit(...) on the server itself, with no room and without
\* going through the service
IngestEmits(deviceId, location, alerts) ==
  /\ LET reading == [kind |-> "reading", coordinates |-> location.coordinates,
                     deviceId |-> deviceId]
         events  == Published(alerts)
     IN  delivered' = [i \in 1..Len(events) |-> Delivery(events[i], reading, Broadcast)]
  /\ UNCHANGED <<io, sockets, latest, ingestVars, eval, recordVars>>

Locations == { [coordinates |-> c] : c \in Coordinates }

\* the hub on its own: the sockets' requests, the service's emitters and the
\* emits of the ingestion handler; the store side of that handler is Spec's
NextHub ==
  \/ initializeSocket
  \/ \E s \in Sockets : Connect(s)
  \/ \E s \in Sockets, l \in Locations : join_location(s, l)
  \/ \E s \in Sockets, l \in Locations : leave_location(s, l)
  \/ \E s \in Sockets, d \in ReportingIds : subscribe_device(s, d)
  \/ \E s \in Sockets, d \in ReportingIds : unsubscribe_device(s, d)
  \/ \E s \in Sockets : disconnect(s)
  \/ \E l \in Locations : emitWaterQualityUpdate(l)
  \/ \E d \in ReportingIds : emitDeviceStatusUpdate(d)
  \/ \E l \in Locations : emitAlertNotification(l)
  \/ \E d \in ReportingIds, l \in Locations, alerts \in BOOLEAN : IngestEmits(d, l, alerts)

SpecHub == Init /\ [][NextHub]_vars

(***************************************************************************)
(* models/WaterQuality.js: calculateQualityScore, determineStatus and the  *)
(* pre('save') hook that applies them                                      *)
(***************************************************************************)
\* sensorWeights, in hundredths
sensorWeights ==
  [turbidity |-> 45, tds |-> 20, temperature |-> 15, dissolvedOxygen |-> 20]

WeightedParams == DOMAIN sensorWeights

\* paramScore of one parameter's value
paramScore(param, value) ==
  CASE param = "turbidity" ->
         IF value < 5 THEN 100 ELSE IF value < 10 THEN 80
         ELSE IF value < 20 THEN 60 ELSE 30
    [] param = "tds" ->
         IF value >= 150 /\ value <= 500 THEN 100
         ELSE IF value >= 100 /\ value <= 750 THEN 80
         ELSE IF value >= 50 /\ value <= 1000 THEN 60 ELSE 40
    [] param = "temperature" ->
         IF value >= 10 /\ value <= 25 THEN 100
         ELSE IF value >= 5 /\ value <= 30 THEN 80 ELSE 60
    [] param = "dissolvedOxygen" ->
         IF value > 6 THEN 100 ELSE IF value > 4 THEN 80
         ELSE IF value > 2 THEN 60 ELSE 30
    [] OTHER -> 100

\* this.sensorData[param] && this.sensorData[param].value !== undefined
Weighted(sensorData) == { p \in WeightedParams : sensorData[p].present }

RECURSIVE Sum(_, _)
Sum(f, S) ==
  IF S = {} THEN 0
  ELSE LET x == CHOOSE y \in S : TRUE IN f[x] + Sum(f, S \ {x})

\* Math.round(num / den) for num >= 0, den > 0: halves go up
round(num, den) == (2 * num + den) \div (2 * den)

\* reviewWeights, in hundredths
reviewWeights == [overallRating |-> 40, taste |-> 20, clarity |-> 20, odor |-> 20]

\* this.reviewData[param].rating, 0 where the property is undefined: an
\* aspect without a rating, and overallRating, which is a Number and has no
\* property `rating`
ratingOf(reviewData, param) ==
  IF "rating" \in DOMAIN reviewData[param] /\ reviewData[param].present
  THEN reviewData[param].rating
  ELSE 0

\* this.reviewData[param] && this.reviewData[param].rating
Rated(reviewData) ==
  { p \in DOMAIN reviewWeights : ratingOf(reviewData, p) # 0 }

\* (rating / 5) * 100
reviewScore(rating) == (rating * 100) \div 5

\* score and totalWeight after the branch of the document's source
Totals(doc) ==
  IF doc.source = "esp32"
  THEN LET present == Weighted(doc.sensorData)
       IN  [score |-> Sum([p \in present |->
                            paramScore(p, doc.sensorData[p].value) * sensorWeights[p]],
                          present),
            totalWeight |-> Sum(sensorWeights, present)]
  ELSE IF doc.source = "user_review"
  THEN LET rated == Rated(doc.reviewData)
       IN  [score |-> Sum([p \in rated |->
                            reviewScore(ratingOf(doc.reviewData, p)) * reviewWeights[p]],
                          rated),
            totalWeight |-> Sum(reviewWeights, rated)]
  ELSE [score |-> 0, totalWeight |-> 0]

\* the score divided by the sum of all the weights of the branch
calculateQualityScore_Unnormalized(doc) ==
  LET t == Totals(doc)
      all == IF doc.source = "esp32" THEN Sum(sensorWeights, WeightedParams)
             ELSE Sum(reviewWeights, DOMAIN reviewWeights)
  IN  IF t.totalWeight > 0 THEN round(t.score, all) ELSE 50

\* calculateQualityScore.  The weights are hundredths here and doubles in
\* the code; over all combinations of present parameters and sub-scores, and
\* of whole ratings, Math.round of the double quotient equals round of the
\* exact one.
calculateQualityScore(doc) ==
  LET t == Totals(doc)
  IN  IF t.totalWeight > 0 THEN round(t.score, t.totalWeight) ELSE 50

\* the breakpoints read as strict
determineStatus_Exclusive(qualityScore) ==
  IF qualityScore > 80 THEN "excellent"
  ELSE IF qualityScore > 60 THEN "good"
  ELSE IF qualityScore > 40 THEN "fair"
  ELSE IF qualityScore > 20 THEN "poor"
  ELSE "critical"

determineStatus(qualityScore) ==
  IF qualityScore >= 80 THEN "excellent"
  ELSE IF qualityScore >= 60 THEN "good"
  ELSE IF qualityScore >= 40 THEN "fair"
  ELSE IF qualityScore >= 20 THEN "poor"
  ELSE "critical"

(***************************************************************************)
(* routes/esp32.js: checkForAlerts                                         *)
(***************************************************************************)
Alert(type, sensor, value, threshold) ==
  [type |-> type, sensor |-> sensor, value |-> value, threshold |-> threshold]

\* the four tests one after the other, each pushing its alert
parameterAlerts_Independent(sensorKey, value, thresholds) ==
  (IF "criticalMin" \in DOMAIN thresholds /\ value < thresholds.criticalMin
   THEN <<Alert("critical", sensorKey, value, thresholds.criticalMin)>> ELSE <<>>)
  \o (IF "criticalMax" \in DOMAIN thresholds /\ value > thresholds.criticalMax
      THEN <<Alert("critical", sensorKey, value, thresholds.criticalMax)>> ELSE <<>>)
  \o (IF "min" \in DOMAIN thresholds /\ value < thresholds.min
      THEN <<Alert("warning", sensorKey, value, thresholds.min)>> ELSE <<>>)
  \o (IF "max" \in DOMAIN thresholds /\ value > thresholds.max
      THEN <<Alert("warning", sensorKey, value, thresholds.max)>> ELSE <<>>)

\* the warning bounds tested before the critical ones
parameterAlerts_WarningFirst(sensorKey, value, thresholds) ==
  IF "min" \in DOMAIN thresholds /\ value < thresholds.min
  THEN <<Alert("warning", sensorKey, value, thresholds.min)>>
  ELSE IF "max" \in DOMAIN thresholds /\ value > thresholds.max
  THEN <<Alert("warning", sensorKey, value, thresholds.max)>>
  ELSE IF "criticalMin" \in DOMAIN thresholds /\ value < thresholds.criticalMin
  THEN <<Alert("critical", sensorKey, value, thresholds.criticalMin)>>
  ELSE IF "criticalMax" \in DOMAIN thresholds /\ value > thresholds.criticalMax
  THEN <<Alert("critical", sensorKey, value, thresholds.criticalMax)>>
  ELSE <<>>

\* the if / else if chain over criticalMin, criticalMax, min, max of one
\* sensor's thresholds: the alerts it pushes
parameterAlerts(sensorKey, value, thresholds) ==
  IF "criticalMin" \in DOMAIN thresholds /\ value < thresholds.criticalMin
  THEN <<Alert("critical", sensorKey, value, thresholds.criticalMin)>>
  ELSE IF "criticalMax" \in DOMAIN thresholds /\ value > thresholds.criticalMax
  THEN <<Alert("critical", sensorKey, value, thresholds.criticalMax)>>
  ELSE IF "min" \in DOMAIN thresholds /\ value < thresholds.min
  THEN <<Alert("warning", sensorKey, value, thresholds.min)>>
  ELSE IF "max" \in DOMAIN thresholds /\ value > thresholds.max
  THEN <<Alert("warning", sensorKey, value, thresholds.max)>>
  ELSE <<>>

\* the overall check with its critical bound at 30
overallAlerts_Below30(qualityScore) ==
  IF qualityScore < 30 THEN <<Alert("critical", "overall", qualityScore, 40)>>
  ELSE IF qualityScore < 60 THEN <<Alert("warning", "overall", qualityScore, 60)>>
  ELSE <<>>

\* the check of the overall quality score
overallAlerts(qualityScore) ==
  IF qualityScore < 40 THEN <<Alert("critical", "overall", qualityScore, 40)>>
  ELSE IF qualityScore < 60 THEN <<Alert("warning", "overall", qualityScore, 60)>>
  ELSE <<>>

\* Object.keys(sensorData).forEach from the i-th key on
RECURSIVE sensorAlerts(_, _, _)
sensorAlerts(sensorData, thresholds, i) ==
  IF i > Len(SensorOrder) THEN <<>>
  ELSE LET sensorKey == SensorOrder[i]
       IN  (IF sensorData[sensorKey].present /\ sensorKey \in DOMAIN thresholds
            THEN parameterAlerts(sensorKey, sensorData[sensorKey].value,
                                 thresholds[sensorKey])
            ELSE <<>>)
           \o sensorAlerts(sensorData, thresholds, i + 1)

checkForAlerts(waterQualityData, device) ==
  sensorAlerts(waterQualityData.sensorData, device.thresholds, 1)
    \o overallAlerts(waterQualityData.qualityScore)

(***************************************************************************)
(* One reading through scoring and threshold evaluation.                   *)
(***************************************************************************)
\* a new WaterQuality of source 'esp32' and the thresholds of its device, a
\* new WaterQuality of source 'user_review', or a document that carries a
\* quality score
InitReading ==
  /\ InitIngest
  /\ InitHub
  /\ InitRecords
  /\ \/ \E sd \in SensorData, th \in ThresholdConfigs :
          eval = [IdleEval EXCEPT !.pc = "new", !.sensorData = sd, !.thresholds = th]
     \/ \E rd \in ReviewData :
          eval = [IdleEval EXCEPT !.pc = "new", !.source = "user_review",
                                  !.reviewData = rd]
     \/ \E q \in 0..100 :
          eval = [IdleEval EXCEPT !.pc = "scored", !.qualityScore = q]

\* pre('save'): qualityScore, then assessment.status
PreSave ==
  /\ eval.pc = "new"
  /\ LET q == calculateQualityScore(eval)
     IN  eval' = [eval EXCEPT !.pc = "saved", !.qualityScore = q,
                              !.status = determineStatus(q)]
  /\ UNCHANGED <<ingestVars, hubVars, recordVars>>

\* determineStatus() on a document that carries a quality score
DetermineStatus ==
  /\ eval.pc = "scored"
  /\ eval' = [eval EXCEPT !.pc = "assessed", !.status = determineStatus(eval.qualityScore)]
  /\ UNCHANGED <<ingestVars, hubVars, recordVars>>

\* const alerts = checkForAlerts(waterQualityData, device), which only the
\* handler of POST /api/esp32/data calls
CheckForAlerts ==
  /\ eval.pc = "saved"
  /\ eval.source = "esp32"
  /\ eval' = [eval EXCEPT !.pc = "checked",
       !.alerts = checkForAlerts([sensorData |-> eval.sensorData,
                                  qualityScore |-> eval.qualityScore],
                                 [thresholds |-> eval.thresholds])]
  /\ UNCHANGED <<ingestVars, hubVars, recordVars>>

NextReading ==
  \/ PreSave
  \/ DetermineStatus
  \/ CheckForAlerts

SpecReading == InitReading /\ [][NextReading]_vars

(***************************************************************************)
(* The WaterQuality collection: POST /api/esp32/data with the values of    *)
(* the reading (the handler run from its first line to its response; its   *)
(* interleavings with other handlers are those of Spec), POST              *)
(* /api/water-quality/review, the two acknowledge handlers and the data    *)
(* cleanup of cronService.js.                                              *)
(***************************************************************************)
\* sensorData with a value for turbidity and temperature alone; 0 for none
Sensors(turbidity, temperature) ==
  [p \in SensorParams |->
     IF p = "turbidity" /\ turbidity # 0 THEN [present |-> TRUE, value |-> turbidity]
     ELSE IF p = "temperature" /\ temperature # 0
     THEN [present |-> TRUE, value |-> temperature]
     ELSE NoValue]

\* the readings the devices send: scores 30, 48 and 100
RecordSensorData == { Sensors(25, 0), Sensors(25, 10), Sensors(4, 0) }

Review(overall, taste) ==
  [NoReview EXCEPT !.overallRating = [present |-> TRUE, value |-> overall],
                   !.taste = IF taste = 0 THEN NoRating
                             ELSE [present |-> TRUE, rating |-> taste]]

\* the reviews the users submit
RecordReviews == { Review(4, 0), Review(4, 1), Review(2, 5) }

\* a qualityScore a caller puts into its request body; 0 for none
SuppliedScores == {0, 99}

\* a request body without a timestamp
NoTimestamp == -1

\* the timestamps a device may send: none, or a day
Timestamps == {NoTimestamp} \cup Days

\* timestamp || new Date()
timestampOf(timestamp, day) == IF timestamp = NoTimestamp THEN day ELSE timestamp

\* new WaterQuality({...}) as the handlers construct it: qualityScore and
\* assessment.status are not among the fields they pass
NewRecord(source, deviceId, timestamp, sensorData, reviewData) ==
  [NoRecord EXCEPT !.exists = TRUE, !.source = source, !.deviceId = deviceId,
                   !.timestamp = timestamp, !.sensorData = sensorData,
                   !.reviewData = reviewData]

\* the hook computing the score and leaving the status as it is
preSaveWaterQuality_ScoreOnly(doc, payloadModified) ==
  IF payloadModified
  THEN [doc EXCEPT !.qualityScore = calculateQualityScore(doc)]
  ELSE doc

\* waterQualitySchema.pre('save'); payloadModified is
\* isModified('sensorData') || isModified('reviewData')
preSaveWaterQuality(doc, payloadModified) ==
  IF payloadModified
  THEN LET q == calculateQualityScore(doc)
       IN  [doc EXCEPT !.qualityScore = q, !.status = determineStatus(q)]
  ELSE doc

\* the _id of the next new document: ids are not given out twice
Used(w) == wq[w].exists \/ wq[w].status = "deleted"

Fresh ==
  LET free == { i \in 1..Len(RecordOrder) : ~Used(RecordOrder[i]) }
  IN  IF free = {} THEN ""
      ELSE RecordOrder[CHOOSE i \in free : \A j \in free : i <= j]

\* the slot of a document that was deleted
Deleted == [NoRecord EXCEPT !.status = "deleted"]

\* the thresholds of the devices, which all carry the schema's
Thresholds(device) == DefaultThresholds

Response(op, res, id) == [NoResponse EXCEPT !.op = op, !.res = res, !.id = id]

\* the outcomes of the awaits of POST /api/esp32/data
IngestOutcomes == {"save rejects", "recordReading rejects", "emit throws", "ok"}

\* POST /api/esp32/data for device d with sensorData sd, the device's
\* timestamp ts (a day before today, or none) and a qualityScore in the body
Ingest(d, sd, ts, supplied, outcome) ==
  LET q == [isNew |-> ~store[d].exists, device |-> InMemoryDevice(store[d], now),
            loaded |-> store[d].status]
      m == preSave(recordReading(q.device, TRUE), StatusModified(q), now)
      w == Fresh
      doc == preSaveWaterQuality(
               NewRecord("esp32", d, timestampOf(ts, today), sd, NoReview), TRUE)
      alerts == checkForAlerts(doc, [thresholds |-> Thresholds(q.device)])
  IN  /\ w # ""
      /\ wq' = IF outcome = "save rejects" THEN wq ELSE [wq EXCEPT ![w] = doc]
      /\ store' =
           IF outcome \in {"save rejects", "recordReading rejects"} THEN store
           ELSE IF q.isNew THEN [store EXCEPT ![d] = Insert(store[d], m)]
           ELSE [store EXCEPT ![d] = SetPaths(store[d], m, IngestPaths(q))]
      /\ last' =
           IF outcome = "ok"
           THEN [Response("ingest", 200, w) EXCEPT
                   !.qualityScore = doc.qualityScore, !.alerts = alerts,
                   !.emitted = Published(alerts # <<>>), !.supplied = supplied]
           ELSE [Response("ingest", 500, IF outcome = "save rejects" THEN "" ELSE w)
                   EXCEPT !.supplied = supplied]
      /\ UNCHANGED <<readings, req, sweep, reg, now, hubVars, eval, acks, today>>

\* POST /api/water-quality/review by user u: new WaterQuality, save, 201; a
\* rejected save is answered 500 by asyncHandler
SubmitReview(u, rd, supplied, saved) ==
  LET w == Fresh
      doc == preSaveWaterQuality(NewRecord("user_review", "", today, 
                                           [p \in SensorParams |-> NoValue], rd), TRUE)
  IN  /\ w # ""
      /\ wq' = IF saved THEN [wq EXCEPT ![w] = doc] ELSE wq
      /\ last' =
           IF saved
           THEN [Response("review", 201, w) EXCEPT
                   !.qualityScore = doc.qualityScore, !.supplied = supplied]
           ELSE [Response("review", 500, "") EXCEPT !.supplied = supplied]
      /\ UNCHANGED <<ingestVars, hubVars, eval, acks, today>>

\* the paths the acknowledge handlers assign before save()
acknowledgePaths(doc) == {"acknowledged", "acknowledgedBy", "acknowledgedAt"}

\* the handler without its test of alerts.isAlert
Acknowledgeable_Any(doc) == TRUE

\* if (!waterQuality.alerts.isAlert) return res.status(400)
Acknowledgeable(doc) == doc.isAlert

\* PUT /api/water-quality/:id/acknowledge and PUT
\* /api/admin/alerts/:id/acknowledge, up to the save: findById, 404 without a
\* document, 400 without an alert
acknowledge(u, id) ==
  /\ acks[u].pc = "idle"
  /\ IF ~wq[id].exists
     THEN acks' = acks /\ last' = Response("acknowledge", 404, id)
     ELSE IF ~Acknowledgeable(wq[id])
     THEN acks' = acks /\ last' = Response("acknowledge", 400, id)
     ELSE acks' = [acks EXCEPT ![u] = [pc |-> "loaded", id |-> id]] /\ last' = last
  /\ UNCHANGED <<ingestVars, hubVars, eval, wq, today>>

\* await waterQuality.save() of the acknowledge handlers resolves: the three
\* assigned paths are written; the hook finds the payload unmodified
acknowledgeSave(u) ==
  /\ acks[u].pc = "loaded"
  /\ LET id == acks[u].id
         m  == preSaveWaterQuality(
                 [wq[id] EXCEPT !.acknowledged = TRUE, !.acknowledgedBy = u,
                                !.acknowledgedAt = today], FALSE)
     IN  /\ wq[id].exists
         /\ wq' = [wq EXCEPT ![id] = SetPaths(wq[id], m, acknowledgePaths(wq[id]))]
         /\ last' = Response("acknowledge", 200, id)
  /\ acks' = [acks EXCEPT ![u] = IdleAck]
  /\ UNCHANGED <<ingestVars, hubVars, eval, today>>

\* that save rejects (the document is gone, or the store fails): 500
acknowledgeFail(u) ==
  /\ acks[u].pc = "loaded"
  /\ last' = Response("acknowledge", 500, acks[u].id)
  /\ acks' = [acks EXCEPT ![u] = IdleAck]
  /\ UNCHANGED <<ingestVars, hubVars, eval, wq, today>>

\* the filter with $lte for $lt
CleanupFilter_AtThirty(doc, day) ==
  doc.exists /\ doc.source = "esp32" /\ doc.timestamp <= day - RetentionDays

\* { timestamp: { $lt: thirtyDaysAgo }, source: 'esp32' }
CleanupFilter(doc, day) ==
  doc.exists /\ doc.source = "esp32" /\ doc.timestamp < day - RetentionDays

\* the data cleanup: deleteMany resolves
Cleanup ==
  /\ wq' = [w \in RecordIds |-> IF CleanupFilter(wq[w], today) THEN Deleted ELSE wq[w]]
  /\ last' = Response("cleanup", 0, "")
  /\ UNCHANGED <<ingestVars, hubVars, eval, acks, today>>

\* deleteMany rejects after it has deleted some of the documents of the
\* filter, not all: the catch block logs
CleanupFail ==
  /\ \E gone \in SUBSET { w \in RecordIds : CleanupFilter(wq[w], today) } :
       /\ gone # { w \in RecordIds : CleanupFilter(wq[w], today) }
       /\ wq' = [w \in RecordIds |-> IF w \in gone THEN Deleted ELSE wq[w]]
  /\ last' = Response("cleanup failed", 0, "")
  /\ UNCHANGED <<ingestVars, hubVars, eval, acks, today>>

\* days pass, between the handlers
NextDay ==
  /\ \A u \in Users : acks[u].pc = "idle"
  /\ \E day \in Days : day > today /\ today' = day
  /\ UNCHANGED <<ingestVars, hubVars, eval, wq, acks, last>>

\* the collection as the handlers find it: empty, or holding a document
\* whose alerts.isAlert is set
InitStored ==
  /\ InitIngest
  /\ InitHub
  /\ InitEval
  /\ acks = [u \in Users |-> IdleAck]
  /\ today = 0
  /\ last = NoResponse
  /\ \E stored \in BOOLEAN :
       wq = [w \in RecordIds |->
               IF stored /\ w = RecordOrder[1]
               THEN [preSaveWaterQuality(
                       NewRecord("esp32", "d1", 0, Sensors(25, 0), NoReview), TRUE)
                     EXCEPT !.isAlert = TRUE]
               ELSE NoRecord]

NextRecords ==
  \/ \E d \in ReportingIds, sd \in RecordSensorData,
        ts \in { t \in Timestamps : t < today },
        supplied \in SuppliedScores, outcome \in IngestOutcomes :
       Ingest(d, sd, ts, supplied, outcome)
  \/ \E u \in Users, rd \in RecordReviews, supplied \in SuppliedScores, saved \in BOOLEAN :
       SubmitReview(u, rd, supplied, saved)
  \/ \E u \in Users, id \in RecordIds : acknowledge(u, id)
  \/ \E u \in Users : acknowledgeSave(u)
  \/ \E u \in Users : acknowledgeFail(u)
  \/ Cleanup
  \/ CleanupFail
  \/ NextDay

SpecRecords == InitStored /\ [][NextRecords]_vars

(***************************************************************************)
(* Steps and conditions the properties below speak about.                  *)
(***************************************************************************)
\* request r gets its success response in this step
Recorded(r) ==
  req[r].pc = "saved" /\ req'[r].pc = "done" /\ req'[r].res = 200

\* request r gets the 500 for a reading that could not be persisted
ReadingFailed(r) ==
  req[r].pc = "found" /\ req'[r].pc = "done" /\ req'[r].res = 500

\* request r, its reading persisted, goes through its device save and gets
\* its response in this step
Completes(r) == req[r].pc = "saved" /\ req'[r].pc = "done"

Succeeded(r) == req[r].pc = "done" /\ req[r].res = 200

\* a device that is online and was last seen more than the timeout before t
Silent(doc, t) ==
  doc.exists /\ doc.status = "online" /\ t - doc.lastSeen > TimeoutMinutes

Sticky == {"maintenance", "error"}

\* the run in progress has already saved device d as offline
SweptInRun(d) ==
  /\ sweep.pc = "running"
  /\ d \in sweep.due
  /\ \E j \in 1..(sweep.i - 1) : DeviceOrder[j] = d

\* the run in progress has no device left to save
SweepExhausted ==
  /\ sweep.pc = "running"
  /\ \A j \in sweep.i..Len(DeviceOrder) : DeviceOrder[j] \notin sweep.due

(***************************************************************************)
(* C1: when two ingestions of valid readings for the same existing device  *)
(* have both completed successfully, the device's totalReadings is exactly *)
(* 2 higher than before (it was 0 before: only ingestions count readings). *)
(***************************************************************************)
C1_NoLostUpdate ==
  \A d \in DeviceIds :
    (\A r \in Reqs : Succeeded(r) /\ req[r].body.deviceId = d /\ ~req[r].isNew)
      => store[d].totalReadings = Cardinality(Reqs)

(***************************************************************************)
(* C2: a reading accepted for a device that is in maintenance or error     *)
(* leaves that status in place.                                            *)
(***************************************************************************)
C2_StickyUnderIngestion ==
  [][\A r \in Reqs :
       (Recorded(r) /\ req[r].loaded \in Sticky
          /\ store[req[r].body.deviceId].status = req[r].loaded)
         => store'[req[r].body.deviceId].status = req[r].loaded]_vars

C4_SerialOutcome ==
  [][\A r \in Reqs :
       (Recorded(r) /\ SweptInRun(req[r].body.deviceId)
          /\ store[req[r].body.deviceId].status = "offline")
         => /\ store'[req[r].body.deviceId].status = "online"
            /\ store'[req[r].body.deviceId].lastSeen = now]_vars

(***************************************************************************)
(* C5 as stated: in every state, a device last seen more than 10 minutes   *)
(* ago is offline, unless it is in maintenance or error.                   *)
(***************************************************************************)
C5_AlwaysOffline ==
  \A d \in DeviceIds :
    (store[d].exists /\ now - store[d].lastSeen > TimeoutMinutes)
      => store[d].status \in {"offline"} \cup Sticky

(***************************************************************************)
(* C5 amended: when a run of the status check has gone through all         *)
(* devices, none of the devices it read as online and last seen more than  *)
(* 10 minutes ago is still online with that old lastSeen.                  *)
(***************************************************************************)
C5_OfflineAfterSweep ==
  [][(SweepExhausted /\ sweep'.pc = "idle") =>
       \A d \in sweep.due : ~Silent(store[d], sweep.now)]_vars

\* a run that read d1 as silent has saved it and comes to its end
C5_Witness ==
  /\ SweepExhausted /\ "d1" \in sweep.due
  /\ store["d1"].status = "offline"
  /\ sweep.now - store["d1"].lastSeen > TimeoutMinutes

(***************************************************************************)
(* C6: an ingestion that found the device offline leaves it, when it       *)
(* completes, online with lastSeen set to the time of the ingestion.       *)
(***************************************************************************)
C6_BackOnline ==
  [][\A r \in Reqs :
       (Recorded(r) /\ ~req[r].isNew /\ req[r].loaded = "offline")
         => /\ store'[req[r].body.deviceId].status = "online"
            /\ store'[req[r].body.deviceId].lastSeen = now]_vars

\* the run in progress has set d1 offline, and a reading that found it
\* offline has since been ingested
C6_Witness ==
  /\ SweptInRun("d1")
  /\ \E r \in Reqs : Succeeded(r) /\ ~req[r].isNew /\ req[r].body.deviceId = "d1"
  /\ store["d1"].status = "online" /\ store["d1"].lastSeen = now
  /\ store["d1"].totalReadings = 2

(***************************************************************************)
(* C7: when persisting the reading fails for a known device, the device's  *)
(* failedReadings goes up by exactly 1, the caller gets the error, and the *)
(* device's status is not changed.                                         *)
(***************************************************************************)
C7_FailureCounted ==
  [][\A r \in Reqs :
       (ReadingFailed(r) /\ ~req[r].isNew)
         => /\ store'[req[r].body.deviceId].failedReadings
                 = store[req[r].body.deviceId].failedReadings + 1
            /\ store'[req[r].body.deviceId].status
                 = store[req[r].body.deviceId].status]_vars

(***************************************************************************)
(* C8: the stored totalReadings and successfulReadings of a device change  *)
(* only in the step in which an ingestion whose reading is already         *)
(* persisted saves the device; a failed or abandoned reading save leaves   *)
(* them as they were.                                                      *)
(***************************************************************************)
C8_CountersAfterPersistence ==
  [][\A d \in DeviceIds :
       (\/ store'[d].totalReadings # store[d].totalReadings
        \/ store'[d].successfulReadings # store[d].successfulReadings)
         => \E r \in Reqs :
              /\ Completes(r) /\ req[r].body.deviceId = d
              /\ r \in readings]_vars

\* a reading save failed for an existing device whose counters stand at 0
C8_Witness ==
  \E r \in Reqs :
    /\ req[r].pc = "done" /\ req[r].res = 500 /\ r \notin readings /\ ~req[r].isNew
    /\ store[req[r].body.deviceId].exists
    /\ store[req[r].body.deviceId].totalReadings = 0

(***************************************************************************)
(* C9: a request without a location, or without any sensor entry that has  *)
(* a value, is answered 400 and changes nothing: no device, no reading, no *)
(* event.                                                                  *)
(***************************************************************************)
C9_RejectedNoEffect ==
  [][\A r \in Reqs :
       (/\ req[r].pc = "idle" /\ req'[r].pc # "idle"
        /\ \/ ~req'[r].body.hasLocation
           \/ ~req'[r].body.hasSensors
           \/ \A k \in SensorKeys : req'[r].body.sensors[k] # "value")
         => /\ req'[r].pc = "done" /\ req'[r].res = 400
            /\ req'[r].emitted = <<>>
            /\ store' = store /\ readings' = readings]_vars

\* both kinds of request were rejected
C9_Witness ==
  /\ req["r1"].res = 400 /\ ~req["r1"].body.hasLocation
  /\ req["r2"].res = 400 /\ req["r2"].body.hasLocation
  /\ req["r2"].body.sensors["turbidity"] = "novalue"
  /\ readings = {}

(***************************************************************************)
(* C10 as stated: on every path that creates a device, the device is       *)
(* online when it is created.                                              *)
(***************************************************************************)
C10_CreatedOnline ==
  [][\A d \in DeviceIds :
       (~store[d].exists /\ store'[d].exists) => store'[d].status = "online"]_vars

(***************************************************************************)
(* C10 amended: an ingestion for an unknown deviceId that saves the device *)
(* creates it with the default thresholds and status online; a device      *)
(* created by registration has the schema's default status, offline.       *)
(***************************************************************************)
C10_CreatedByIngestionOnline ==
  [][\A d \in DeviceIds :
       (~store[d].exists /\ store'[d].exists) =>
         IF \E r \in Reqs : Completes(r) /\ req[r].isNew /\ req[r].body.deviceId = d
         THEN /\ store'[d].status = "online"
              /\ store'[d].thresholds = "default"
              /\ store'[d].totalReadings = 1
         ELSE store'[d].status = "offline"]_vars

\* a first reading created d1, and registration created d2
C10_Witness ==
  /\ \E r \in Reqs : Succeeded(r) /\ req[r].isNew /\ req[r].body.deviceId = "d1"
  /\ store["d1"].exists /\ store["d1"].status = "online"
  /\ store["d2"].exists /\ store["d2"].status = "offline"

(***************************************************************************)
(* C11: the collection never holds more than one document with the same    *)
(* deviceId, whatever the interleaving of first-contact readings and       *)
(* registrations.                                                          *)
(***************************************************************************)
C11_OneDevicePerId ==
  \A d \in DeviceIds : store[d].docs <= 1 /\ (store[d].exists <=> store[d].docs = 1)

\* two first-contact readings for d1 both found no device; the first created
\* it, the second one's insert was refused
C11_Witness ==
  /\ req["r1"].isNew /\ req["r1"].pc = "done" /\ req["r1"].res = 200
  /\ req["r2"].isNew /\ req["r2"].pc = "done" /\ req["r2"].res = 500
  /\ "r2" \in readings
  /\ store["d1"].docs = 1 /\ store["d1"].totalReadings = 1

(***************************************************************************)
(* C13: a request answered with success has emitted the reading event and, *)
(* after it, the alert event exactly when its alert list is non-empty; a   *)
(* request whose reading is not persisted has emitted nothing.             *)
(***************************************************************************)
C13_AlertEventIffAlerts ==
  \A r \in Reqs :
    /\ Succeeded(r) =>
         /\ r \in readings
         /\ Len(req[r].emitted) >= 1 /\ req[r].emitted[1] = "esp32-data"
         /\ req[r].alerts <=> (Len(req[r].emitted) = 2
                                /\ req[r].emitted[2] = "water-quality-alert")
         /\ ~req[r].alerts => Len(req[r].emitted) = 1
    /\ r \notin readings => req[r].emitted = <<>>

\* one success with alerts and one without
C13_Witness ==
  /\ Succeeded("r1") /\ req["r1"].alerts
  /\ Succeeded("r2") /\ ~req["r2"].alerts

(***************************************************************************)
(* C14: once the device save of a request has gone through (its reading is *)
(* persisted and only the publishing is left), the caller gets the success *)
(* response, whatever happens while publishing.                            *)
(***************************************************************************)
C14_PublishNeverFails ==
  [][\A r \in Reqs :
       (Completes(r) /\ r \in readings /\ store' # store) => req'[r].res = 200]_vars

C15_DeliveredIffJoined ==
  [][delivered' # delivered =>
       \A i \in 1..Len(delivered') :
         delivered'[i].room # Broadcast =>
           \A s \in Sockets :
             s \in delivered'[i].to
               <=> /\ sockets[s].state = "connected"
                   /\ latest[s][delivered'[i].topic] = "join"]_vars

\* an update for location (1, 23) reached s1 alone: s2 had joined it and
\* left it again and is still in the room of (12, 3)
C15_Witness ==
  /\ Len(delivered) = 1
  /\ delivered[1].topic = LocationTopic(<<1, 23>>)
  /\ delivered[1].to = {"s1"}
  /\ sockets["s2"].state = "connected"
  /\ latest["s2"][LocationTopic(<<1, 23>>)] = "leave"
  /\ locationRoom([coordinates |-> <<12, 3>>]) \in sockets["s2"].rooms
  /\ latest["s1"][LocationTopic(<<12, 3>>)] = "leave"

(***************************************************************************)
(* Conditions on the reading under evaluation.                             *)
(***************************************************************************)
\* the positions in the alert list of the alerts for sensor p
AlertsFor(p) == { i \in 1..Len(eval.alerts) : eval.alerts[i].sensor = p }

\* the reading carries parameter p and the device has thresholds for it
Evaluated(p) == eval.sensorData[p].present /\ p \in DOMAIN eval.thresholds

ViolatesCritical(p) ==
  /\ Evaluated(p)
  /\ LET v == eval.sensorData[p].value
         t == eval.thresholds[p]
     IN  \/ "criticalMin" \in DOMAIN t /\ v < t.criticalMin
         \/ "criticalMax" \in DOMAIN t /\ v > t.criticalMax

ViolatesWarning(p) ==
  /\ Evaluated(p)
  /\ LET v == eval.sensorData[p].value
         t == eval.thresholds[p]
     IN  \/ "min" \in DOMAIN t /\ v < t.min
         \/ "max" \in DOMAIN t /\ v > t.max

\* the reading's only parameter is turbidity = 25
OnlyTurbidity25 ==
  /\ eval.sensorData["turbidity"] = [present |-> TRUE, value |-> 25]
  /\ \A p \in SensorParams \ {"turbidity"} : ~eval.sensorData[p].present

(***************************************************************************)
(* C16: the alert list of a reading holds at most one alert per sensor     *)
(* parameter; a parameter that violates a critical bound has a critical    *)
(* alert, whether or not it also violates a warning bound; one that        *)
(* violates only a warning bound has a warning; a parameter within its     *)
(* bounds, without a value or without thresholds has none.                 *)
(***************************************************************************)
C16_OneAlertPerParameter ==
  eval.pc = "checked" =>
    \A p \in SensorParams :
      /\ Cardinality(AlertsFor(p)) <= 1
      /\ ViolatesCritical(p) =>
           \E i \in AlertsFor(p) : eval.alerts[i].type = "critical"
      /\ (ViolatesWarning(p) /\ ~ViolatesCritical(p)) =>
           \E i \in AlertsFor(p) : eval.alerts[i].type = "warning"
      /\ (~ViolatesWarning(p) /\ ~ViolatesCritical(p)) => AlertsFor(p) = {}

\* temperature 4 is below criticalMin 5 and below min 10 of the default
\* thresholds, tds 1001 above criticalMax 1000 and max 500
C16_Witness ==
  /\ eval.pc = "checked"
  /\ eval.thresholds = DefaultThresholds
  /\ eval.sensorData["temperature"] = [present |-> TRUE, value |-> 4]
  /\ eval.sensorData["tds"] = [present |-> TRUE, value |-> 1001]
  /\ ViolatesCritical("temperature") /\ ViolatesWarning("temperature")
  /\ Cardinality(AlertsFor("temperature")) = 1

(***************************************************************************)
(* C17 as stated: with turbidity criticalMax = 20, a reading whose only    *)
(* parameter is turbidity = 25 has an alert list of exactly one element,   *)
(* critical, for turbidity.                                                *)
(***************************************************************************)
C17_ExactlyOneAlert ==
  (/\ eval.pc = "checked" /\ OnlyTurbidity25
   /\ "turbidity" \in DOMAIN eval.thresholds
   /\ "criticalMax" \in DOMAIN eval.thresholds["turbidity"]
   /\ eval.thresholds["turbidity"].criticalMax = 20)
    => /\ Len(eval.alerts) = 1
       /\ eval.alerts[1].type = "critical"
       /\ eval.alerts[1].sensor = "turbidity"

(***************************************************************************)
(* C17 amended: that reading has exactly one alert for turbidity, critical *)
(* against the bound 20, no warning, and after it the critical alert for   *)
(* the overall score 30.                                                   *)
(***************************************************************************)
C17_OneTurbidityAlertAndOverall ==
  (/\ eval.pc = "checked" /\ OnlyTurbidity25
   /\ "turbidity" \in DOMAIN eval.thresholds
   /\ "criticalMax" \in DOMAIN eval.thresholds["turbidity"]
   /\ eval.thresholds["turbidity"].criticalMax = 20)
    => /\ Len(eval.alerts) = 2
       /\ eval.alerts[1] = Alert("critical", "turbidity", 25, 20)
       /\ eval.alerts[2].type = "critical" /\ eval.alerts[2].sensor = "overall"
       /\ eval.alerts[2].value = 30
       /\ \A i \in 1..Len(eval.alerts) : eval.alerts[i].type # "warning"

\* the reading evaluated against thresholds that set criticalMax = 20 next
\* to max = 5
C17_Witness ==
  /\ eval.pc = "checked" /\ OnlyTurbidity25
  /\ eval.thresholds = DefaultThresholds
  /\ Len(eval.alerts) = 2

C19_StatusByBreakpoints ==
  eval.pc \in {"assessed", "saved", "checked"} =>
    LET q == eval.qualityScore
        scores == <<0, 19, 20, 39, 40, 59, 60, 79, 80, 100>>
        expected == <<"critical", "critical", "poor", "poor", "fair", "fair",
                      "good", "good", "excellent", "excellent">>
    IN  /\ q \in 0..100
        /\ eval.status = "excellent" <=> q >= 80
        /\ eval.status = "good" <=> (q >= 60 /\ q < 80)
        /\ eval.status = "fair" <=> (q >= 40 /\ q < 60)
        /\ eval.status = "poor" <=> (q >= 20 /\ q < 40)
        /\ eval.status = "critical" <=> q < 20
        /\ \A i \in 1..Len(scores) : q = scores[i] => eval.status = expected[i]

\* a document with score 80, at the breakpoint, assessed
C19_Witness ==
  eval.pc = "assessed" /\ eval.qualityScore = 80 /\ eval.status = "excellent"

(***************************************************************************)
(* C20: the quality score of a sensor reading is the average of the        *)
(* sub-scores of its weighted parameters that have a value, weighted with  *)
(* their weights over the sum of those weights and rounded to the nearest  *)
(* integer (halves up); it lies between the smallest and the largest of    *)
(* those sub-scores and in 0..100; with no weighted parameter it is 50.    *)
(***************************************************************************)
C20_RenormalizedAverage ==
  (eval.pc \in {"saved", "checked"} /\ eval.source = "esp32") =>
    LET present == Weighted(eval.sensorData)
        sub == [p \in present |-> paramScore(p, eval.sensorData[p].value)]
        num == Sum([p \in present |-> sub[p] * sensorWeights[p]], present)
        den == Sum(sensorWeights, present)
        q   == eval.qualityScore
    IN  IF present = {} THEN q = 50
        ELSE /\ 2 * q * den <= 2 * num + den
             /\ 2 * num + den < 2 * (q + 1) * den
             /\ \E p \in present : sub[p] <= q
             /\ \E p \in present : q <= sub[p]
             /\ q \in 0..100

\* turbidity 25 (sub-score 30, weight 0.45) and temperature 10 (100, 0.15)
\* alone: 47.5, rounded to 48
C20_Witness ==
  /\ eval.pc = "saved"
  /\ Weighted(eval.sensorData) = {"turbidity", "temperature"}
  /\ eval.sensorData["turbidity"].value = 25
  /\ eval.sensorData["temperature"].value = 10
  /\ eval.qualityScore = 48

(***************************************************************************)
(* C21: the quality score of a review is the average of rating / 5 * 100   *)
(* over the ratings it carries among overallRating (weight 0.40), taste,   *)
(* clarity and odor (0.20 each), weighted over the sum of the weights of   *)
(* those present and rounded; a review with an overall rating r alone has  *)
(* round(r / 5 * 100); the default 50 is for a review without any rating.  *)
(***************************************************************************)
C21_ReviewAverage ==
  (eval.pc = "saved" /\ eval.source = "user_review") =>
    LET rd == eval.reviewData
        present == { p \in DOMAIN reviewWeights : rd[p].present }
        rating(p) == IF p = "overallRating" THEN rd[p].value ELSE rd[p].rating
        num == Sum([p \in present |-> rating(p) * 20 * reviewWeights[p]], present)
        den == Sum(reviewWeights, present)
        q   == eval.qualityScore
    IN  IF present = {} THEN q = 50
        ELSE /\ 2 * q * den <= 2 * num + den
             /\ 2 * num + den < 2 * (q + 1) * den
             /\ present = {"overallRating"} => q = rating("overallRating") * 20

(***************************************************************************)
(* Conditions on the response of the handler that answered last.           *)
(***************************************************************************)
\* the handler has created a document and answered with success
Created == last.op \in {"ingest", "review"} /\ last.res \in {200, 201}

IsOverall(alert) == alert.sensor = "overall"

(***************************************************************************)
(* C22: every reading that is stored, of a device or of a review, has had  *)
(* the check of its overall score: the alerts of its response hold a       *)
(* critical alert for 'overall' when the score is below 40, a warning when *)
(* it is from 40 to below 60, and none from 60.                            *)
(***************************************************************************)
C22_OverallCheckAnySource ==
  Created => SelectSeq(last.alerts, IsOverall) = overallAlerts(last.qualityScore)

(***************************************************************************)
(* C23: every document of the collection carries, in every state, the      *)
(* quality score that calculateQualityScore gives for its stored payload   *)
(* and the status that determineStatus gives for that score; a             *)
(* qualityScore in the request body is not what is stored, and a document  *)
(* that has been acknowledged still carries them.                          *)
(***************************************************************************)
C23_ScoreDerivedFromPayload ==
  /\ \A w \in RecordIds :
       wq[w].exists =>
         /\ wq[w].qualityScore = calculateQualityScore(wq[w])
         /\ wq[w].status = determineStatus(wq[w].qualityScore)
  /\ (Created /\ last.supplied # 0 /\ wq[last.id].exists) =>
       /\ wq[last.id].qualityScore = last.qualityScore
       /\ wq[last.id].qualityScore # last.supplied

\* a reading sent with qualityScore 99 is stored with 30 and poor, next to a
\* document that has been acknowledged since it was stored
C23_Witness ==
  /\ Created /\ last.op = "ingest" /\ last.supplied = 99
  /\ wq[last.id].exists /\ wq[last.id].qualityScore = 30 /\ wq[last.id].status = "poor"
  /\ \E w \in RecordIds : wq[w].exists /\ wq[w].acknowledged

(***************************************************************************)
(* C24: the document that an ingestion has stored is marked as an alert    *)
(* exactly when the alert list returned to the caller and published is not *)
(* empty.                                                                  *)
(***************************************************************************)
C24_StoredAlertsAsReturned ==
  (last.op = "ingest" /\ last.res = 200 /\ wq[last.id].exists) =>
    (wq[last.id].isAlert <=> last.alerts # <<>>)

(***************************************************************************)
(* C25: a document that is acknowledged stays acknowledged for as long as  *)
(* it is in the collection, whatever handler or job takes a step; and an   *)
(* acknowledge request for a document that is not an alert is answered 400 *)
(* and changes no document.                                                *)
(***************************************************************************)
C25_AcknowledgedStays ==
  [][\A w \in RecordIds :
       /\ (wq[w].exists /\ wq[w].acknowledged /\ wq'[w].exists) => wq'[w].acknowledged
       /\ (/\ last' # last /\ last'.op = "acknowledge" /\ last'.id = w
           /\ wq[w].exists /\ ~wq[w].isAlert)
            => last'.res = 400 /\ wq' = wq]_vars

\* a day after a document was acknowledged, a request for another document,
\* which is no alert, has been rejected
C25_Witness ==
  /\ \E w \in RecordIds :
       wq[w].exists /\ wq[w].acknowledged /\ wq[w].acknowledgedAt < today
  /\ last.op = "acknowledge" /\ last.res = 400
  /\ wq[last.id].exists /\ ~wq[last.id].isAlert /\ ~wq[last.id].acknowledged

C27_SweepContinues ==
  [][(sweep.pc = "running" /\ sweep'.pc = "idle") =>
       \A j \in 1..Len(DeviceOrder) :
         (DeviceOrder[j] \in sweep.due /\ j # NextDue(sweep.due, sweep.i))
           => ~Silent(store'[DeviceOrder[j]], sweep.now)]_vars

(***************************************************************************)
(* C28: a run of the data cleanup that completes removes exactly the       *)
(* documents of source 'esp32' whose timestamp is more than 30 days before *)
(* the day of the run and leaves every other document as it is; and no     *)
(* step, of a run that fails included, removes a review or a document of   *)
(* a device that is 30 days old or younger.                                *)
(***************************************************************************)
C28_CleanupExact ==
  [][\A w \in RecordIds :
       /\ (wq[w].exists /\ ~wq'[w].exists) =>
            wq[w].source = "esp32" /\ today - wq[w].timestamp > RetentionDays
       /\ (last'.op = "cleanup" /\ (last' # last \/ wq' # wq)) =>
            IF /\ wq[w].exists /\ wq[w].source = "esp32"
               /\ today - wq[w].timestamp > RetentionDays
            THEN ~wq'[w].exists
            ELSE wq'[w] = wq[w]]_vars

\* a cleanup on day 31 has removed a device's document and has left a review
\* of day 0 in the collection
C28_Witness ==
  /\ last.op = "cleanup" /\ today = RetentionDays + 1
  /\ \E w \in RecordIds : wq[w] = Deleted
  /\ \E w \in RecordIds :
       wq[w].exists /\ wq[w].source = "user_review" /\ wq[w].timestamp = 0

(***************************************************************************)
(* C29: averageQualityScore of a device is the mean of the quality scores  *)
(* of its successfully ingested readings: every ingestion answered with    *)
(* success takes the new score into the mean (the mean times the count of  *)
(* successful readings grows by that score), and a step that is not such   *)
(* an ingestion leaves the stored mean as it is.                           *)
(***************************************************************************)
C29_RunningMean ==
  [][\A d \in DeviceIds :
       IF /\ last' # last /\ last'.op = "ingest" /\ last'.res = 200
          /\ wq'[last'.id].deviceId = d
       THEN store'[d].averageQualityScore * store'[d].successfulReadings
              = store[d].averageQualityScore * store[d].successfulReadings
                  + last'.qualityScore
       ELSE store'[d].averageQualityScore = store[d].averageQualityScore]_vars

(***************************************************************************)
(* C30: a request to POST /api/esp32/data that is answered with an error   *)
(* (4xx or 5xx) has left no reading in the store, whichever step of the    *)
(* handler failed.                                                         *)
(***************************************************************************)
C30_ErrorMeansNothingStored ==
  \A r \in Reqs : (req[r].pc = "done" /\ req[r].res >= 400) => r \notin readings

====
